---- MODULE Spec2Model ----
(***************************************************************************)
(* Model of the blog generation service: the POST /api/generate-blog       *)
(* handler (src/app.py) and the pipeline function generate_blog            *)
(* (src/generate_blog.py).                                                 *)
(*                                                                         *)
(* Python str values are sequences of one-character strings.  Python       *)
(* objects that reach the parsing code are records [k, s, n]: k the type,  *)
(* s the characters of a str (or the digits of a number), n the number of  *)
(* elements of a list or dict.                                             *)
(***************************************************************************)
EXTENDS Integers, Sequences, FiniteSets, TLC

(* ------------------------------ bounds -------------------------------- *)
\* longest topic of a request, in characters
MaxTopicLen == 1
\* most quote/whitespace characters put around the image stage's raw text
MaxPad == 2
\* most prose fragments put around the editor's JSON object
MaxJunk == 1

(* --------------------------- Python values ---------------------------- *)
Str(s) == [k |-> "str", s |-> s, n |-> 0]
Num(s) == [k |-> "num", s |-> s, n |-> 0]
None == [k |-> "none", s |-> <<>>, n |-> 0]
PyTrue == [k |-> "bool", s |-> <<>>, n |-> 1]
PyFalse == [k |-> "bool", s |-> <<>>, n |-> 0]
\* float("nan"), which json.loads reads from the literal NaN
PyNaN == [k |-> "float", s |-> <<>>, n |-> 0]
PyList(n) == [k |-> "list", s |-> <<>>, n |-> n]
PyDict(n) == [k |-> "dict", s |-> <<>>, n |-> n]
\* a name that has not been assigned yet
Unbound == [k |-> "unbound", s |-> <<>>, n |-> 0]

IsStr(v) == v.k = "str"

\* `if v:` / `not v`  (generate_blog.py:54, 233, 240)
Truthy(v) ==
  CASE v.k = "str" -> v.s # <<>>
    [] v.k = "num" -> v.s # <<"0">>
    [] v.k \in {"bool", "list", "dict"} -> v.n > 0
    [] v.k = "float" -> TRUE
    [] OTHER -> FALSE

\* a != b where b is a str  (generate_blog.py:259)
PyNe(a, b) == ~(IsStr(a) /\ IsStr(b) /\ a.s = b.s)

(* ------------------------------ str methods --------------------------- *)
RECURSIVE FindFrom(_, _, _)
FindFrom(s, c, i) ==
  IF i > Len(s) THEN -1
  ELSE IF s[i] = c THEN i - 1
  ELSE FindFrom(s, c, i + 1)

\* str.find(c): 0-based index of the first c, -1 when there is none
find(s, c) == FindFrom(s, c, 1)

RECURSIVE RFindFrom(_, _, _)
RFindFrom(s, c, i) ==
  IF i < 1 THEN -1
  ELSE IF s[i] = c THEN i - 1
  ELSE RFindFrom(s, c, i - 1)

\* str.rfind(c): 0-based index of the last c, -1 when there is none
rfind(s, c) == RFindFrom(s, c, Len(s))

\* s[a : b]  for 0 <= a, b
Slice(s, a, b) == SubSeq(s, a + 1, IF b > Len(s) THEN Len(s) ELSE b)

RECURSIVE LStrip(_, _)
LStrip(s, chars) ==
  IF s # <<>> /\ Head(s) \in chars THEN LStrip(Tail(s), chars) ELSE s

RECURSIVE RStrip(_, _)
RStrip(s, chars) ==
  IF s # <<>> /\ s[Len(s)] \in chars
  THEN RStrip(SubSeq(s, 1, Len(s) - 1), chars) ELSE s

\* str.strip(chars)
strip(s, chars) == RStrip(LStrip(s, chars), chars)

\* str.startswith(p)
startswith(s, p) == Len(s) >= Len(p) /\ SubSeq(s, 1, Len(p)) = p

Whitespace == {" ", "\n"}
DQ == "\""
SQ == "'"
Http == <<"h", "t", "t", "p">>

(* ------------------------------ json.loads ---------------------------- *)
Digits == {"0", "1", "7"}
ParseFail == [ok |-> FALSE, i |-> 0, v |-> None, m |-> <<>>]
ParseOk(i, v, m) == [ok |-> TRUE, i |-> i, v |-> v, m |-> m]

RECURSIVE SkipWs(_, _)
SkipWs(s, i) ==
  IF i <= Len(s) /\ s[i] \in Whitespace THEN SkipWs(s, i + 1) ELSE i

\* s[i] is the opening quote; the literal runs to the next quote
ParseString(s, i) ==
  LET j == FindFrom(s, DQ, i + 1)
  IN IF j = -1 THEN ParseFail
     ELSE ParseOk(j + 2, Str(SubSeq(s, i + 1, j)), <<>>)

RECURSIVE DigitsEnd(_, _)
DigitsEnd(s, i) ==
  IF i <= Len(s) /\ s[i] \in Digits THEN DigitsEnd(s, i + 1) ELSE i

\* an integer literal; a leading zero ends the number
ParseNumber(s, i) ==
  LET j == IF s[i] = "0" THEN i + 1 ELSE DigitsEnd(s, i)
  IN ParseOk(j, Num(SubSeq(s, i, j - 1)), <<>>)

ParseLiteral(s, i, word, v) ==
  IF startswith(SubSeq(s, i, Len(s)), word)
  THEN ParseOk(i + Len(word), v, <<>>) ELSE ParseFail

RECURSIVE ParseValue(_, _)
RECURSIVE ParseElems(_, _, _)
RECURSIVE ParseMembers(_, _, _)

\* the elements of an array after "[" or ","; n elements were read so far
ParseElems(s, i, n) ==
  LET r == ParseValue(s, SkipWs(s, i))
      j == SkipWs(s, r.i)
  IN IF ~r.ok \/ j > Len(s) THEN ParseFail
     ELSE IF s[j] = "]" THEN ParseOk(j + 1, PyList(n + 1), <<>>)
     ELSE IF s[j] = "," THEN ParseElems(s, j + 1, n + 1)
     ELSE ParseFail

\* the members of an object after "{" or ","; m holds the pairs read so far
ParseMembers(s, i, m) ==
  LET a == SkipWs(s, i)
      key == IF a <= Len(s) /\ s[a] = DQ THEN ParseString(s, a) ELSE ParseFail
      c == SkipWs(s, key.i)
      r == IF key.ok /\ c <= Len(s) /\ s[c] = ":"
           THEN ParseValue(s, SkipWs(s, c + 1)) ELSE ParseFail
      j == SkipWs(s, r.i)
      mm == Append(m, <<key.v.s, r.v>>)
  IN IF ~r.ok \/ j > Len(s) THEN ParseFail
     ELSE IF s[j] = "}" THEN ParseOk(j + 1, PyDict(Len(mm)), mm)
     ELSE IF s[j] = "," THEN ParseMembers(s, j + 1, mm)
     ELSE ParseFail

\* one JSON value starting at s[i]
ParseValue(s, i) ==
  IF i > Len(s) THEN ParseFail
  ELSE CASE s[i] = DQ -> ParseString(s, i)
         [] s[i] \in Digits -> ParseNumber(s, i)
         [] s[i] = "n" -> ParseLiteral(s, i, <<"n", "u", "l", "l">>, None)
         [] s[i] = "t" -> ParseLiteral(s, i, <<"t", "r", "u", "e">>, PyTrue)
         [] s[i] = "f" -> ParseLiteral(s, i, <<"f", "a", "l", "s", "e">>, PyFalse)
         [] s[i] = "N" -> ParseLiteral(s, i, <<"N", "a", "N">>, PyNaN)
         [] s[i] = "[" ->
              LET j == SkipWs(s, i + 1)
              IN IF j <= Len(s) /\ s[j] = "]" THEN ParseOk(j + 1, PyList(0), <<>>)
                 ELSE ParseElems(s, i + 1, 0)
         [] s[i] = "{" ->
              LET j == SkipWs(s, i + 1)
              IN IF j <= Len(s) /\ s[j] = "}" THEN ParseOk(j + 1, PyDict(0), <<>>)
                 ELSE ParseMembers(s, i + 1, <<>>)
         [] OTHER -> ParseFail

\* a decoder that stops after the first value and ignores what follows
json_loads_Lenient(s) == ParseValue(s, SkipWs(s, 1))

\* json.loads(s): one value, then only whitespace; ok = FALSE is
\* JSONDecodeError.  Like the decoder it accepts the literal NaN.
json_loads(s) ==
  LET r == ParseValue(s, SkipWs(s, 1))
  IN IF r.ok /\ SkipWs(s, r.i) = Len(s) + 1 THEN r ELSE ParseFail

RECURSIVE DictGetFrom(_, _, _)
DictGetFrom(m, key, i) ==
  IF i < 1 THEN None
  ELSE IF m[i][1] = key THEN m[i][2]
  ELSE DictGetFrom(m, key, i - 1)

\* a lookup that ignores the key and takes the last member
DictGet_AnyKey(m, key) == IF m = <<>> THEN None ELSE m[Len(m)][2]

\* dict.get(key): the value of the last member with that key, else None
DictGet(m, key) == DictGetFrom(m, key, Len(m))

(* ------------------------------ exceptions ---------------------------- *)
\* the classes an exception class is an instance of (EnvironmentError is
\* OSError; BlogGenerationError derives from Exception, generate_blog.py:25)
Bases(cls) ==
  CASE cls = "OSError" -> {"OSError", "Exception"}
    [] cls = "FileNotFoundError" -> {"FileNotFoundError", "OSError", "Exception"}
    [] cls = "BlogGenerationError" -> {"BlogGenerationError", "Exception"}
    [] OTHER -> {cls, "Exception"}

IsInstance(exc, cls) == cls \in Bases(exc.cls)

NoExc == [cls |-> "none", cause |-> "none"]
Exc(cls) == [cls |-> cls, cause |-> "none"]

\* a bare `raise`: the original exception leaves generate_blog
WrapPipelineError_Reraise(e) == e

\* raise BlogGenerationError(...) from e  (generate_blog.py:304-306)
WrapPipelineError(e) == [cls |-> "BlogGenerationError", cause |-> e.cls]

\* classes the external calls are let raise
StageErrors == {"ValueError", "OSError", "FileNotFoundError"}
ImageErrors == {"ValueError", "OSError"}

(* ------------------------------ constants ----------------------------- *)
BlogOn == <<"B", "l", "o", "g", " ", "o", "n", " ">>
\* f"Blog on {topic}"  (generate_blog.py:209, 259; app.py:74)
DefaultTitle(topic) == Str(BlogOn \o topic)
\* "Error: Could not parse editor output."  (generate_blog.py:210)
DefaultBody ==
  Str(<<"E", "r", "r", "o", "r", ":", " ", "C", "o", "u", "l", "d", " ",
        "n", "o", "t", " ", "p", "a", "r", "s", "e", " ", "e", "d", "i",
        "t", "o", "r", " ", "o", "u", "t", "p", "u", "t", ".">>)
TitleKey == <<"t", "i", "t", "l", "e">>
BodyKey == <<"b", "o", "d", "y">>

ConfigDetail == "Server configuration error: "
PipelineDetail == "Failed to generate blog: "
UnexpectedDetail == "An unexpected server error occurred: "

(* -------------------------- pipeline functions ------------------------ *)
\* the check written as `is None`: an empty credential passes
CredentialMissing_NoneOnly(key) == key = None

\* `if not openai_api_key`  (generate_blog.py:54)
CredentialMissing(key) == ~Truthy(key)

\* the check written as `is not None`: an empty text is kept
KeepOrDefault_NoneCheck(parsed, default) ==
  IF parsed # None THEN parsed ELSE default

\* the title or body kept from the parsed object  (generate_blog.py:233-245)
KeepOrDefault(parsed, default) == IF Truthy(parsed) THEN parsed ELSE default

\* the condition on the two brace indices  (generate_blog.py:221)
BracesFound(a, b) == a # -1 /\ b # -1 /\ b > a

\* generate_blog.py:209-255: the title and body taken from the editor's
\* output; every exception of the inner try leaves the defaults
ProcessEditedResult(crew_result, topic) ==
  LET defaults == [title |-> DefaultTitle(topic), body |-> DefaultBody]
      raw == crew_result.raw
      a == find(raw.s, "{")
      b == rfind(raw.s, "}")
      r == json_loads(Slice(raw.s, a, b + 1))
  IN IF ~crew_result.hasRaw \/ ~IsStr(raw) THEN defaults
     ELSE IF ~BracesFound(a, b) THEN defaults
     ELSE IF ~r.ok \/ r.v.k # "dict" THEN defaults
     ELSE [title |-> KeepOrDefault(DictGet(r.m, TitleKey), defaults.title),
           body |-> KeepOrDefault(DictGet(r.m, BodyKey), defaults.body)]

\* the comparison written against "Blog on " without the topic
ImageGate_NoTopic(final_title, topic) == PyNe(final_title, Str(BlogOn))

\* `if final_title != f"Blog on {topic}"`  (generate_blog.py:259)
ImageGate(final_title, topic) == PyNe(final_title, DefaultTitle(topic))

\* one strip of whitespace and both quotes together
StripCandidate_AnyOrder(raw_out) == strip(raw_out, Whitespace \cup {DQ, SQ})

\* raw_out.strip().strip('"').strip("'")  (generate_blog.py:290)
StripCandidate(raw_out) == strip(strip(strip(raw_out, Whitespace), {DQ}), {SQ})

\* the extraction without the "http" test: any text is taken as the URL
ExtractImageUrl_NoPrefixCheck(image_result) ==
  IF image_result.shape = "emptylist" \/ ~IsStr(image_result.raw) THEN None
  ELSE Str(strip(strip(strip(image_result.raw.s, Whitespace), {DQ}), {SQ}))

\* generate_blog.py:282-295: the URL taken from the image stage's result;
\* None when reading it raises or the text is not a URL
ExtractImageUrl(image_result) ==
  LET raw_out == image_result.raw
      cand == StripCandidate(raw_out.s)
  IN IF image_result.shape = "emptylist" \/ ~IsStr(raw_out) THEN None
     ELSE IF startswith(cand, Http) THEN Str(cand)
     ELSE None

(* ------------------------------ endpoint ------------------------------ *)
\* BlogResponse (app.py:54-57): title and body_markdown are str,
\* image_url is str or None; a value of another type fails validation
ValidResponse(result) ==
  /\ IsStr(result.title)
  /\ IsStr(result.body_markdown)
  /\ IsStr(result.image_url) \/ result.image_url = None

NoResult == [title |-> Unbound, body_markdown |-> Unbound, image_url |-> Unbound]

\* the except clauses of the handler, in order  (app.py:78-89)
ErrorDetail(exc) ==
  IF IsInstance(exc, "BlogGenerationError") THEN PipelineDetail
  ELSE IF IsInstance(exc, "OSError") THEN ConfigDetail
  ELSE UnexpectedDetail

\* app.py:68-89: the response to a call of generate_blog that raised exc
\* (NoExc: it returned result)
Respond(exc, result) ==
  IF exc # NoExc
  THEN [status |-> 500, detail |-> ErrorDetail(exc), body |-> NoResult]
  ELSE IF ValidResponse(result)
  THEN [status |-> 200, detail |-> "", body |-> result]
  ELSE [status |-> 500, detail |-> ErrorDetail(Exc("ValidationError")),
        body |-> NoResult]

(* ------------------------------- inputs ------------------------------- *)
SeqsUpTo(S, n) == UNION {[1..k -> S] : k \in 0..n}

Topics == SeqsUpTo({"a"}, MaxTopicLen)

\* OPENAI_API_KEY: unset, empty, set
ApiKeys == {None, Str(<<>>), Str(<<"k">>)}

Lit(text) == <<DQ>> \o text \o <<DQ>>
Member(key, src) == Lit(key) \o <<":", " ">> \o src
Brace(src) == <<"{">> \o src \o <<"}">>
NullSrc == <<"n", "u", "l", "l">>
ListSrc == <<"[", "1", "]">>
\* {"title": X, "body": Y} as the editor writes it
TitleBodySrc(x, y) ==
  Brace(Member(TitleKey, Lit(x)) \o <<",", " ">> \o Member(BodyKey, Lit(y)))

TitleTexts == {<<"X">>, <<>>, BlogOn \o <<"a">>}
BodyTexts == {<<"Y">>, <<>>}
TitleSrcs ==
  {Lit(t) : t \in TitleTexts}
    \cup {NullSrc, <<"0">>, ListSrc, Brace(Member(<<"k">>, <<"7">>))}
BodySrcs == {Lit(t) : t \in BodyTexts} \cup {NullSrc, ListSrc}

EditorObjects ==
  {Brace(<<>>), Brace(Member(<<"k">>, Lit(<<"X">>))),
   Brace(Member(TitleKey, <<"t", "r", "u", "e">>)),
   Brace(Member(TitleKey, <<"N", "a", "N">>)),
   Brace(Member(TitleKey, Lit(<<"Z">>)) \o <<",">> \o Member(TitleKey, Lit(<<"X">>)))}
    \cup {Brace(Member(TitleKey, v)) : v \in TitleSrcs}
    \cup {Brace(Member(BodyKey, w)) : w \in BodySrcs}
    \cup {Brace(Member(TitleKey, v) \o <<",", " ">> \o Member(BodyKey, w)) :
            v \in TitleSrcs, w \in BodySrcs}
    \cup {Brace(Member(BodyKey, w) \o <<",">> \o Member(TitleKey, v)) :
            v \in TitleSrcs, w \in BodySrcs}

\* text that is not an object: no braces, one brace, braces in the wrong
\* order, and objects json.loads rejects
EditorMalformed ==
  {<<>>, <<"w">>, <<"{">>, <<"}">>, <<"}", "w", "{">>,
   <<"{">> \o Member(TitleKey, Lit(<<"X">>)),
   Member(TitleKey, Lit(<<"X">>)) \o <<"}">>,
   Brace(Lit(TitleKey) \o <<" ">> \o Lit(<<"X">>)),
   Brace(Member(TitleKey, Lit(<<"X">>)) \o <<",">>),
   Brace(TitleKey \o <<":">> \o Lit(<<"X">>)),
   Brace(Member(TitleKey, <<DQ, "X">>)),
   Brace(Member(TitleKey, <<"0", "1">>))}

JunkChars == {"w", "{", "}"}
JunkPairs ==
  {p \in SeqsUpTo(JunkChars, MaxJunk) \X SeqsUpTo(JunkChars, MaxJunk) :
     Len(p[1]) + Len(p[2]) <= MaxJunk}

EditorTexts ==
  {p[1] \o o \o p[2] : p \in JunkPairs, o \in EditorObjects} \cup EditorMalformed

\* what blog_crew.kickoff() returns: an object whose raw is the editor's
\* text, whose raw is not text, or that has no raw
CrewResults ==
  {[hasRaw |-> TRUE, raw |-> Str(t)] : t \in EditorTexts}
    \cup {[hasRaw |-> TRUE, raw |-> None], [hasRaw |-> TRUE, raw |-> PyList(1)],
          [hasRaw |-> FALSE, raw |-> Unbound]}
NoCrewResult == [hasRaw |-> FALSE, raw |-> Unbound]

PadChars == {" ", DQ, SQ}
PadPairs ==
  {p \in SeqsUpTo(PadChars, MaxPad) \X SeqsUpTo(PadChars, MaxPad) :
     Len(p[1]) + Len(p[2]) <= MaxPad}
UrlText == Http \o <<"x">>
NotUrlText == <<"n", " ", "u">>
ImageTexts ==
  {p[1] \o c \o p[2] : p \in PadPairs, c \in {UrlText, NotUrlText}} \cup {<<>>}

\* what image_crew.kickoff() returns: an object with raw, a list whose
\* first element has raw, an empty list, or an object read through str()
ImageResults ==
  {[shape |-> "hasraw", raw |-> Str(t)] : t \in ImageTexts}
    \cup {[shape |-> "hasraw", raw |-> None],
          [shape |-> "list", raw |-> Str(UrlText)],
          [shape |-> "list", raw |-> None],
          [shape |-> "emptylist", raw |-> Unbound],
          [shape |-> "other", raw |-> Str(UrlText)],
          [shape |-> "other", raw |-> Str(NotUrlText)]}
NoImageResult == [shape |-> "none", raw |-> Unbound]

(* ------------------------------- state -------------------------------- *)
VARIABLES
  phase,           \* where the request is in the pipeline
  topic,           \* request.topic
  openai_api_key,  \* os.getenv("OPENAI_API_KEY")
  kickoff_exc,     \* the exception blog_crew.kickoff() raised
  crew_result,     \* what blog_crew.kickoff() returned
  final_title,
  final_body,
  image_result,    \* what image_crew.kickoff() returned
  image_exc,       \* the exception caught in the image stage
  image_url,
  raised,          \* the exception that left generate_blog
  result,          \* the dictionary generate_blog returned
  response,        \* the handler's answer
  calls            \* how often each stage was started

vars == <<phase, topic, openai_api_key, kickoff_exc, crew_result, final_title,
          final_body, image_result, image_exc, image_url, raised, result,
          response, calls>>

NoResponse == [status |-> 0, detail |-> "", body |-> NoResult]
FinalResult(t, b, u) == [title |-> t, body_markdown |-> b, image_url |-> u]

\* a request has arrived; nothing of generate_blog has run
Init ==
  /\ phase = "Init"
  /\ topic \in Topics
  /\ openai_api_key \in ApiKeys
  /\ kickoff_exc = NoExc
  /\ crew_result = NoCrewResult
  /\ final_title = Unbound
  /\ final_body = Unbound
  /\ image_result = NoImageResult
  /\ image_exc = NoExc
  /\ image_url = Unbound
  /\ raised = NoExc
  /\ result = NoResult
  /\ response = NoResponse
  /\ calls = [research |-> 0, write |-> 0, edit |-> 0, image |-> 0]

\* generate_blog raises exc; the handler answers  (app.py:78-89)
Fail(exc) ==
  /\ phase' = "Failed"
  /\ raised' = exc
  /\ response' = Respond(exc, NoResult)
  /\ UNCHANGED result

\* a loop around the image stage: instead of returning, the stage is run again
Return_RetryImage(t, b, u) ==
  /\ phase' = "ImageGenerating"
  /\ UNCHANGED <<raised, result, response>>

\* generate_blog returns its dictionary; the handler answers
\* (generate_blog.py:310-316, app.py:70-77)
Return(t, b, u) ==
  /\ phase' = "Done"
  /\ result' = FinalResult(t, b, u)
  /\ response' = Respond(NoExc, FinalResult(t, b, u))
  /\ UNCHANGED raised

\* generate_blog.py:50-56: the credential is missing
RejectMissingCredential ==
  /\ phase = "Init"
  /\ CredentialMissing(openai_api_key)
  /\ Fail(Exc("OSError"))
  /\ UNCHANGED <<topic, openai_api_key, kickoff_exc, crew_result, final_title, final_body,
                 image_result, image_exc, image_url, calls>>

\* generate_blog.py:57-199: building the tools, model, agents, tasks or
\* crew raises; nothing catches it inside generate_blog
ConstructionRaises ==
  /\ phase = "Init"
  /\ ~CredentialMissing(openai_api_key)
  /\ \E cls \in StageErrors : Fail(Exc(cls))
  /\ UNCHANGED <<topic, openai_api_key, kickoff_exc, crew_result, final_title, final_body,
                 image_result, image_exc, image_url, calls>>

\* generate_blog.py:195-204: blog_crew.kickoff() starts its first task
KickoffStarts ==
  /\ phase = "Init"
  /\ ~CredentialMissing(openai_api_key)
  /\ phase' = "Researching"
  /\ calls' = [calls EXCEPT !.research = @ + 1]
  /\ UNCHANGED <<topic, openai_api_key, kickoff_exc, crew_result, final_title, final_body,
                 image_result, image_exc, image_url, raised, result, response>>

\* a crew built without task_write
NextStage_SkipWriting(p) == "Editing"

\* tasks=[task_research, task_write, task_edit]  (generate_blog.py:197)
NextStage(p) == IF p = "Researching" THEN "Writing" ELSE "Editing"
StageCall(p) == IF p = "Writing" THEN "write" ELSE "edit"

\* a task of blog_crew ends and the crew starts the next one
StageReturns ==
  /\ phase \in {"Researching", "Writing"}
  /\ phase' = NextStage(phase)
  /\ calls' = [calls EXCEPT ![StageCall(NextStage(phase))] = @ + 1]
  /\ UNCHANGED <<topic, openai_api_key, kickoff_exc, crew_result, final_title, final_body,
                 image_result, image_exc, image_url, raised, result, response>>

\* generate_blog.py:204, 304-306: blog_crew.kickoff() raises in a task
StageRaises ==
  /\ phase \in {"Researching", "Writing", "Editing"}
  /\ \E cls \in StageErrors :
       /\ kickoff_exc' = Exc(cls)
       /\ Fail(WrapPipelineError(Exc(cls)))
  /\ UNCHANGED <<topic, openai_api_key, crew_result, final_title, final_body,
                 image_result, image_exc, image_url, calls>>

\* generate_blog.py:204-260, 300-301: blog_crew.kickoff() returns, the
\* editor's output is parsed and the image stage is entered or skipped
EditingReturns ==
  /\ phase = "Editing"
  /\ \E cr \in CrewResults :
       LET parsed == ProcessEditedResult(cr, topic)
       IN /\ crew_result' = cr
          /\ final_title' = parsed.title
          /\ final_body' = parsed.body
          /\ phase' = IF ImageGate(parsed.title, topic)
                      THEN "ImageGenerating" ELSE "SkipImage"
  /\ image_url' = None
  /\ UNCHANGED <<topic, openai_api_key, kickoff_exc, image_result, image_exc, raised, result,
                 response, calls>>

\* generate_blog.py:300-316: no image stage; the result is returned
SkipImageReturns ==
  /\ phase = "SkipImage"
  /\ Return(final_title, final_body, image_url)
  /\ UNCHANGED <<topic, openai_api_key, kickoff_exc, crew_result, final_title, final_body,
                 image_result, image_exc, image_url, calls>>

\* generate_blog.py:263-272, 297-299: building the image task or crew raises
ImageBuildRaises ==
  /\ phase = "ImageGenerating"
  /\ calls.image = 0
  /\ \E cls \in ImageErrors : image_exc' = Exc(cls)
  /\ Return(final_title, final_body, image_url)
  /\ UNCHANGED <<topic, openai_api_key, kickoff_exc, crew_result, final_title, final_body,
                 image_result, image_url, calls>>

\* generate_blog.py:273: image_crew.kickoff() is called
ImageKickoff ==
  /\ phase = "ImageGenerating"
  /\ calls.image = 0
  /\ calls' = [calls EXCEPT !.image = @ + 1]
  /\ UNCHANGED <<phase, topic, openai_api_key, kickoff_exc, crew_result, final_title,
                 final_body, image_result, image_exc, image_url, raised, result,
                 response>>

\* generate_blog.py:273, 297-299: image_crew.kickoff() raises
ImageKickoffRaises ==
  /\ phase = "ImageGenerating"
  /\ calls.image = 1
  /\ \E cls \in ImageErrors : image_exc' = Exc(cls)
  /\ Return(final_title, final_body, image_url)
  /\ UNCHANGED <<topic, openai_api_key, kickoff_exc, crew_result, final_title, final_body,
                 image_result, image_url, calls>>

\* generate_blog.py:273-316: image_crew.kickoff() returns; the URL is
\* taken from its result and the result dictionary is returned
ImageReturns ==
  /\ phase = "ImageGenerating"
  /\ calls.image = 1
  /\ \E ir \in ImageResults :
       /\ image_result' = ir
       /\ image_url' = ExtractImageUrl(ir)
       /\ Return(final_title, final_body, ExtractImageUrl(ir))
  /\ UNCHANGED <<topic, openai_api_key, kickoff_exc, crew_result, final_title, final_body,
                 image_exc, calls>>

Next ==
  \/ RejectMissingCredential
  \/ ConstructionRaises
  \/ KickoffStarts
  \/ StageReturns
  \/ StageRaises
  \/ EditingReturns
  \/ SkipImageReturns
  \/ ImageBuildRaises
  \/ ImageKickoff
  \/ ImageKickoffRaises
  \/ ImageReturns

Spec == Init /\ [][Next]_vars

\* The code of a request is sequential, so a step that can be taken is
\* taken; every external call (the crew's tasks, the image kickoff)
\* eventually returns or raises.
Fairness ==
  /\ WF_vars(RejectMissingCredential \/ ConstructionRaises \/ KickoffStarts)
  /\ WF_vars(StageReturns \/ StageRaises \/ EditingReturns)
  /\ WF_vars(SkipImageReturns)
  /\ WF_vars(ImageBuildRaises \/ ImageKickoff)
  /\ WF_vars(ImageKickoffRaises \/ ImageReturns)

FairSpec == Init /\ [][Next]_vars /\ Fairness

TypeOK ==
  /\ phase \in {"Init", "Researching", "Writing", "Editing", "ImageGenerating",
                "SkipImage", "Done", "Failed"}
  /\ response.status \in {0, 200, 500}

(* ------------------------------ claims -------------------------------- *)
ZeroCalls == [research |-> 0, write |-> 0, edit |-> 0, image |-> 0]
\* blog_crew.kickoff() has returned
EditingCompleted == phase \in {"ImageGenerating", "SkipImage", "Done"}
\* the editor's output is exactly the text t
EditorWrote(t) == EditingCompleted /\ crew_result = [hasRaw |-> TRUE, raw |-> Str(t)]

\* C1 as stated: for every topic and all texts X and Y, the empty text
\* included, an editor output that is exactly {"title": X, "body": Y}
\* is returned as title X and body_markdown Y.
C1_AnyTextReturned ==
  \A x \in TitleTexts, y \in BodyTexts :
    (phase = "Done" /\ EditorWrote(TitleBodySrc(x, y)))
      => (result.title = Str(x) /\ result.body_markdown = Str(y))

\* C1 amended: a non-empty X is returned as the title and a non-empty Y as
\* body_markdown; an empty X leaves the title "Blog on {T}" and an empty Y
\* leaves the parse-error placeholder.
C1_NonEmptyTextReturned ==
  \A x \in TitleTexts, y \in BodyTexts :
    (phase = "Done" /\ EditorWrote(TitleBodySrc(x, y)))
      => /\ result.title = (IF x # <<>> THEN Str(x) ELSE Str(BlogOn \o topic))
         /\ result.body_markdown = (IF y # <<>> THEN Str(y) ELSE DefaultBody)

C1_Witness ==
  /\ phase = "Done"
  /\ EditorWrote(TitleBodySrc(<<"X">>, <<"Y">>))
  /\ result.title = Str(<<"X">>)
  /\ result.body_markdown = Str(<<"Y">>)

\* C2: once stages 1-3 have completed and the handler has answered, the
\* status is 200 whatever the editor and the image stage produced.
C2_Always200 == phase = "Done" => response.status = 200

\* C3: with the credential unset or empty no stage is ever started, and
\* the request ends in a 500 with the configuration detail.
C3_MissingCredentialRejected ==
  openai_api_key \in {None, Str(<<>>)}
    => /\ calls = ZeroCalls
       /\ phase \in {"Init", "Failed"}
       /\ phase = "Failed" => /\ response.status = 500
                              /\ response.detail = ConfigDetail
                              /\ response.body = NoResult

C3_Witness ==
  /\ openai_api_key = Str(<<>>)
  /\ phase = "Failed"
  /\ response.status = 500
  /\ response.detail = ConfigDetail

\* C4: an exception of any class raised by the stage 1-3 kickoff leaves
\* generate_blog as one BlogGenerationError whose cause is that exception;
\* the answer is a 500 with the pipeline detail and without title, body or
\* image_url, and the image stage is never started.
C4_StageErrorWrapped ==
  kickoff_exc # NoExc
    => /\ phase = "Failed"
       /\ raised = [cls |-> "BlogGenerationError", cause |-> kickoff_exc.cls]
       /\ response.status = 500
       /\ response.detail = PipelineDetail
       /\ response.body = NoResult
       /\ result = NoResult
       /\ calls.image = 0
       /\ image_result = NoImageResult

C4_Witness ==
  /\ kickoff_exc = Exc("FileNotFoundError")
  /\ calls.write = 1
  /\ calls.edit = 0
  /\ phase = "Failed"
  /\ response.detail = PipelineDetail

\* editor texts with no "{", with no "}", or with every "}" before every "{"
NoBracePair(t) ==
  \/ \A i \in 1..Len(t) : t[i] # "{"
  \/ \A j \in 1..Len(t) : t[j] # "}"
  \/ \A i, j \in 1..Len(t) : (t[i] = "{" /\ t[j] = "}") => j < i
\* editor texts whose span from the first "{" to the last "}" is not JSON:
\* the malformed objects, an object after a stray "{", an object before a
\* stray "}"
BadJsonTexts ==
  {p[1] \o o \o p[2] : p \in {q \in JunkPairs : find(q[1], "{") # -1 \/ find(q[2], "}") # -1},
                       o \in EditorObjects}
    \cup {t \in EditorMalformed : ~NoBracePair(t)}

C6_AnyFieldRecovered ==
  /\ \A y \in BodyTexts :
       (phase = "Done" /\ EditorWrote(Brace(Member(BodyKey, Lit(y)))))
         => (result.title = Str(BlogOn \o topic) /\ result.body_markdown = Str(y))
  /\ \A x \in TitleTexts :
       (phase = "Done" /\ EditorWrote(Brace(Member(TitleKey, Lit(x)))))
         => (result.title = Str(x) /\ result.body_markdown = DefaultBody)

\* C6 amended: the same for every non-empty X and Y; an empty value is
\* treated like a missing key, so both fields are then the defaults.  A
\* missing key never changes the other field.
C6_NonEmptyFieldRecovered ==
  /\ \A y \in BodyTexts :
       (phase = "Done" /\ EditorWrote(Brace(Member(BodyKey, Lit(y)))))
         => /\ result.title = Str(BlogOn \o topic)
            /\ result.body_markdown = (IF y # <<>> THEN Str(y) ELSE DefaultBody)
  /\ \A x \in TitleTexts :
       (phase = "Done" /\ EditorWrote(Brace(Member(TitleKey, Lit(x)))))
         => /\ result.title = (IF x # <<>> THEN Str(x) ELSE Str(BlogOn \o topic))
            /\ result.body_markdown = DefaultBody

C6_Witness ==
  /\ phase = "Done"
  /\ EditorWrote(Brace(Member(BodyKey, Lit(<<"Y">>))))
  /\ result.title = Str(BlogOn \o topic)
  /\ result.body_markdown = Str(<<"Y">>)

\* C7: the image stage is started only when the final title differs from
\* "Blog on {T}"; with that title, parsed or kept as the default, the
\* image stage is never started and image_url is null.
C7_ImageOnlyForRealTitle ==
  /\ (calls.image > 0 \/ phase = "ImageGenerating")
       => final_title # Str(BlogOn \o topic)
  /\ (EditingCompleted /\ final_title = Str(BlogOn \o topic))
       => /\ calls.image = 0
          /\ image_result = NoImageResult
          /\ image_url = None
          /\ phase = "Done" => result.image_url = None

C7_Witness ==
  /\ phase = "Done"
  /\ topic = <<"a">>
  /\ EditorWrote(Brace(Member(TitleKey, Lit(BlogOn \o <<"a">>))))
  /\ calls.image = 0
  /\ result.image_url = None

\* the part of s left when the characters of chars are taken from both ends
Core(s, chars) ==
  IF \A i \in 1..Len(s) : s[i] \in chars THEN <<>>
  ELSE LET a == CHOOSE i \in 1..Len(s) :
                  s[i] \notin chars /\ \A j \in 1..(i - 1) : s[j] \in chars
           b == CHOOSE i \in 1..Len(s) :
                  s[i] \notin chars /\ \A j \in (i + 1)..Len(s) : s[j] \in chars
       IN [i \in 1..(b - a + 1) |-> s[a + i - 1]]

\* the image stage returned the text image_result.raw.s
ImageReturnedText ==
  /\ phase = "Done"
  /\ image_result.shape \in {"hasraw", "list", "other"}
  /\ IsStr(image_result.raw)

UrlOrNone(t) == IF startswith(t, Http) THEN Str(t) ELSE None

ImageEntered ==
  \/ phase = "ImageGenerating"
  \/ calls.image > 0
  \/ image_exc # NoExc
  \/ image_result # NoImageResult

\* the image stage raised, returned nothing readable as text, or returned
\* a text that is not a URL
ImageFailed ==
  \/ image_exc # NoExc
  \/ image_result.shape = "emptylist"
  \/ image_result # NoImageResult /\ ~IsStr(image_result.raw)
  \/ image_result.raw = Str(NotUrlText)

\* C9: once the image stage is entered the request never fails and
\* generate_blog raises nothing; when the stage raised, returned no usable
\* text or returned a text that is not a URL, image_url is null; the title
\* and body parsed from the editor's output are returned unchanged.
C9_ImageFailuresAbsorbed ==
  ImageEntered
    => /\ phase \in {"ImageGenerating", "Done"}
       /\ raised = NoExc
       /\ kickoff_exc = NoExc
       /\ phase = "Done"
            => /\ ImageFailed => result.image_url = None
               /\ result.title = final_title
               /\ result.body_markdown = final_body
               /\ result.title = ProcessEditedResult(crew_result, topic).title
               /\ result.body_markdown = ProcessEditedResult(crew_result, topic).body

C9_Witness ==
  /\ phase = "Done"
  /\ image_result.raw = Str(NotUrlText)
  /\ result.image_url = None
  /\ result.title = Str(<<"X">>)
  /\ raised = NoExc

\* the transitions of a request
Transitions ==
  {<<"Init", "Researching">>, <<"Researching", "Writing">>,
   <<"Writing", "Editing">>, <<"Editing", "ImageGenerating">>,
   <<"Editing", "SkipImage">>, <<"ImageGenerating", "Done">>,
   <<"SkipImage", "Done">>, <<"Init", "Failed">>, <<"Researching", "Failed">>,
   <<"Writing", "Failed">>, <<"Editing", "Failed">>}

\* the stages started so far, for each phase
StartedIn(p) ==
  CASE p = "Init" -> {ZeroCalls}
    [] p = "Researching" -> {[ZeroCalls EXCEPT !.research = 1]}
    [] p = "Writing" -> {[ZeroCalls EXCEPT !.research = 1, !.write = 1]}
    [] p \in {"Editing", "SkipImage"} ->
         {[research |-> 1, write |-> 1, edit |-> 1, image |-> 0]}
    [] p = "ImageGenerating" ->
         {[research |-> 1, write |-> 1, edit |-> 1, image |-> i] : i \in {0, 1}}
    [] OTHER -> [research : {0, 1}, write : {0, 1}, edit : {0, 1}, image : {0, 1}]

StagesInOrder ==
  /\ calls \in StartedIn(phase)
  /\ calls.write <= calls.research
  /\ calls.edit <= calls.write
  /\ calls.image <= calls.edit
  /\ calls.image > 0 => (final_title # Unbound /\ final_body # Unbound)

C11_ConfigDetailOnlyForMissingCredential ==
  response.detail = ConfigDetail => openai_api_key \in {None, Str(<<>>)}

\* the handler has answered
Answered == response.status \in {200, 500}

\* how far a request has come; every step of the pipeline raises it
Progress ==
  calls.image +
    (CASE phase = "Init" -> 0
       [] phase = "Researching" -> 1
       [] phase = "Writing" -> 2
       [] phase = "Editing" -> 3
       [] phase \in {"ImageGenerating", "SkipImage"} -> 4
       [] OTHER -> 6)

====
